---- MODULE Spec2Model ----
(***************************************************************************)
(* Model of internal/policy/policy.go of gke-review: PolicyAgent,          *)
(* EvaluatePolicies, processRegoResult and PolicyEvaluationResult.         *)
(*                                                                         *)
(* Go values of type interface{} are tagged records [t, v]; a Go map is a  *)
(* function whose DOMAIN is the set of keys present; a pointer is a        *)
(* sequence of length 0 (nil) or 1; an error is a record [msg, key, index] *)
(* and NoErr is the nil error.                                             *)
(***************************************************************************)
EXTENDS Integers, Sequences, FiniteSets, TLC

(* ------------------------------ bounds -------------------------------- *)
MaxFiles == 2
MaxOutcomes == 2

(* ----------------------- dynamically typed values --------------------- *)
Str(s) == [t |-> "string", v |-> s]
Num(n) == [t |-> "int", v |-> n]
Bool(b) == [t |-> "bool", v |-> b]
List(l) == [t |-> "list", v |-> l]
Map(m) == [t |-> "map", v |-> m]
NilValue == [t |-> "nil", v |-> 0]

(* ------------------------------- errors ------------------------------- *)
NoErr == [msg |-> "", key |-> "", index |-> -1]
Errorf(msg, key, index) == [msg |-> msg, key |-> key, index |-> index]
Wrap(msg, err) == [msg |-> msg, key |-> err.msg, index |-> err.index]

(* ------------------------------- Policy ------------------------------- *)
Policy ==
    [Name |-> "", FullName |-> "", Description |-> "", Group |-> "",
     Valid |-> FALSE, Violations |-> <<>>, ProcessingErrors |-> <<>>]

(* ----------------------- typed reads of a Go map ---------------------- *)
getStringFromInterfaceMap(name, m) ==
    IF name \notin DOMAIN m
    THEN [val |-> "", err |-> Errorf("map does not contain key", name, -1)]
    ELSE IF m[name].t # "string"
         THEN [val |-> "", err |-> Errorf("key type is (not a string)", name, -1)]
         ELSE [val |-> m[name].v, err |-> NoErr]

\* variant: a missing key reads as false instead of being an error
getBoolFromInterfaceMap_DefaultFalse(name, m) ==
    IF name \notin DOMAIN m
    THEN [val |-> FALSE, err |-> NoErr]
    ELSE IF m[name].t # "bool"
         THEN [val |-> FALSE, err |-> Errorf("key type is (not a string)", name, -1)]
         ELSE [val |-> m[name].v, err |-> NoErr]

getBoolFromInterfaceMap(name, m) ==
    IF name \notin DOMAIN m
    THEN [val |-> FALSE, err |-> Errorf("map does not contain key", name, -1)]
    ELSE IF m[name].t # "bool"
         THEN [val |-> FALSE, err |-> Errorf("key type is (not a string)", name, -1)]
         ELSE [val |-> m[name].v, err |-> NoErr]

\* index of the first element of vList that is not a string, 0 when none
RECURSIVE FirstNonString(_, _)
FirstNonString(vList, i) ==
    IF i > Len(vList) THEN 0
    ELSE IF vList[i].t # "string" THEN i
         ELSE FirstNonString(vList, i + 1)

\* variant: the converted strings are never stored into the new slice
getStringListFromInterfaceMap_Unassigned(name, m) ==
    IF name \notin DOMAIN m
    THEN [val |-> <<>>, err |-> Errorf("map does not contain key", name, -1)]
    ELSE IF m[name].t # "list"
         THEN [val |-> <<>>, err |-> Errorf("key type is (not a []interface{})", name, -1)]
         ELSE LET vList == m[name].v
                  bad == FirstNonString(vList, 1)
              IN IF bad # 0
                 THEN [val |-> <<>>,
                       err |-> Errorf("key's list element is not a string", name, bad - 1)]
                 ELSE [val |-> [i \in 1..Len(vList) |-> ""], err |-> NoErr]

\* variant: a missing key reads as the empty list instead of being an error
getStringListFromInterfaceMap_Optional(name, m) ==
    IF name \notin DOMAIN m
    THEN [val |-> <<>>, err |-> NoErr]
    ELSE IF m[name].t # "list"
         THEN [val |-> <<>>, err |-> Errorf("key type is (not a []interface{})", name, -1)]
         ELSE LET vList == m[name].v
                  bad == FirstNonString(vList, 1)
              IN IF bad # 0
                 THEN [val |-> <<>>,
                       err |-> Errorf("key's list element is not a string", name, bad - 1)]
                 ELSE [val |-> [i \in 1..Len(vList) |-> vList[i].v], err |-> NoErr]

getStringListFromInterfaceMap(name, m) ==
    IF name \notin DOMAIN m
    THEN [val |-> <<>>, err |-> Errorf("map does not contain key", name, -1)]
    ELSE IF m[name].t # "list"
         THEN [val |-> <<>>, err |-> Errorf("key type is (not a []interface{})", name, -1)]
         ELSE LET vList == m[name].v
                  bad == FirstNonString(vList, 1)
              IN IF bad # 0
                 THEN [val |-> <<>>,
                       err |-> Errorf("key's list element is not a string", name, bad - 1)]
                 ELSE [val |-> [i \in 1..Len(vList) |-> vList[i].v], err |-> NoErr]

(* --------------------------- mapRegoPolicyData ------------------------ *)
\* variant: a policy without a group is accepted into the empty group
mapRegoPolicyData_GroupOptional(p, data) ==
    IF data.t # "map"
    THEN [policy |-> p,
          err |-> Errorf("failed to convert value to map[string]interface{}", data.t, -1)]
    ELSE
    LET dataMap == data.v
        rName == getStringFromInterfaceMap("name", dataMap)
        p1 == [p EXCEPT !.FullName = rName.val]
        rDesc == getStringFromInterfaceMap("description", dataMap)
        p2 == [p1 EXCEPT !.Description = rDesc.val]
        rGroup == getStringFromInterfaceMap("group", dataMap)
        p3 == [p2 EXCEPT !.Group = rGroup.val]
        rValid == getBoolFromInterfaceMap("valid", dataMap)
        p4 == [p3 EXCEPT !.Valid = rValid.val]
        rViol == getStringListFromInterfaceMap("violation", dataMap)
        p5 == [p4 EXCEPT !.Violations = rViol.val]
    IN IF rName.err # NoErr THEN [policy |-> p, err |-> rName.err]
       ELSE IF rDesc.err # NoErr THEN [policy |-> p1, err |-> rDesc.err]
       ELSE IF rValid.err # NoErr THEN [policy |-> p3, err |-> rValid.err]
       ELSE IF rViol.err # NoErr THEN [policy |-> p4, err |-> rViol.err]
       ELSE [policy |-> p5, err |-> NoErr]


\* Returns the policy as the method leaves it and the error it returns:
\* fields assigned before the first failing read stay assigned.
mapRegoPolicyData(p, data) ==
    IF data.t # "map"
    THEN [policy |-> p,
          err |-> Errorf("failed to convert value to map[string]interface{}", data.t, -1)]
    ELSE
    LET dataMap == data.v
        rName == getStringFromInterfaceMap("name", dataMap)
        p1 == [p EXCEPT !.FullName = rName.val]
        rDesc == getStringFromInterfaceMap("description", dataMap)
        p2 == [p1 EXCEPT !.Description = rDesc.val]
        rGroup == getStringFromInterfaceMap("group", dataMap)
        p3 == [p2 EXCEPT !.Group = rGroup.val]
        rValid == getBoolFromInterfaceMap("valid", dataMap)
        p4 == [p3 EXCEPT !.Valid = rValid.val]
        rViol == getStringListFromInterfaceMap("violation", dataMap)
        p5 == [p4 EXCEPT !.Violations = rViol.val]
    IN IF rName.err # NoErr THEN [policy |-> p, err |-> rName.err]
       ELSE IF rDesc.err # NoErr THEN [policy |-> p1, err |-> rDesc.err]
       ELSE IF rGroup.err # NoErr THEN [policy |-> p2, err |-> rGroup.err]
       ELSE IF rValid.err # NoErr THEN [policy |-> p3, err |-> rValid.err]
       ELSE IF rViol.err # NoErr THEN [policy |-> p4, err |-> rViol.err]
       ELSE [policy |-> p5, err |-> NoErr]

(* ------------------------ parseRegoExpressionValue -------------------- *)
\* policy is <<>> for a nil *Policy and <<p>> otherwise
parseRegoExpressionValue(value) ==
    IF value.t # "map"
    THEN [policy |-> <<>>,
          err |-> Errorf("rego expression value type is (expected map[string]interface{})",
                         value.t, -1)]
    ELSE
    LET valueMap == value.v
        rName == getStringFromInterfaceMap("name", valueMap)
        policy == [Policy EXCEPT !.Name = rName.val]
    IN IF rName.err # NoErr
       THEN [policy |-> <<>>, err |-> Errorf("policy map does not contain key", "name", -1)]
       ELSE IF "data" \notin DOMAIN valueMap
            THEN [policy |-> <<[policy EXCEPT !.ProcessingErrors =
                                  <<Errorf("policy map does not contain key", "data", -1)>>]>>,
                  err |-> NoErr]
            ELSE LET r == mapRegoPolicyData(policy, valueMap["data"])
                 IN IF r.err # NoErr
                    THEN [policy |-> <<[r.policy EXCEPT !.ProcessingErrors = <<r.err>>]>>,
                          err |-> NoErr]
                    ELSE [policy |-> <<r.policy>>, err |-> NoErr]

(* ------------------------ PolicyEvaluationResult ---------------------- *)
\* successful is a Go map: a nil map and an empty map both have no keys
PolicyEvaluationResult ==
    [successful |-> <<>>, errored |-> <<>>, validCount |-> 0, violatedCount |-> 0]

\* r.successful[group]: the nil slice when the key is absent
Policies(r, group) ==
    IF group \in DOMAIN r.successful THEN r.successful[group] ELSE <<>>

Errored(r) == r.errored

ValidCount(r) == r.validCount

ViolatedCount(r) == r.violatedCount

ErroredCount(r) == Len(r.errored)

\* variant: the keys are appended to the preallocated slice, after
\* len(r.successful) empty strings
Groups_Appends(r) ==
    LET keys == DOMAIN r.successful
        n == Cardinality(keys)
    IN {[k \in 1..n |-> ""] \o s :
          s \in {q \in [1..n -> keys] : \A i, j \in 1..n : q[i] = q[j] => i = j}}

\* Groups ranges over a Go map, whose iteration order is unspecified: the
\* set of slices the call may return
Groups(r) ==
    LET keys == DOMAIN r.successful
        n == Cardinality(keys)
    IN {s \in [1..n -> keys] : \A i, j \in 1..n : s[i] = s[j] => i = j}

\* variant: the verdict is not consulted when counting
AppendSuccessfulPolicy_CountsValid(r, policy) ==
    LET slice == Policies(r, policy.Group)
        successful == [g \in DOMAIN r.successful \cup {policy.Group} |->
                          IF g = policy.Group THEN Append(slice, policy)
                          ELSE r.successful[g]]
    IN [r EXCEPT !.successful = successful, !.validCount = @ + 1]

AppendSuccessfulPolicy(r, policy) ==
    LET slice == Policies(r, policy.Group)
        successful == [g \in DOMAIN r.successful \cup {policy.Group} |->
                          IF g = policy.Group THEN Append(slice, policy)
                          ELSE r.successful[g]]
    IN IF policy.Valid
       THEN [r EXCEPT !.successful = successful, !.validCount = @ + 1]
       ELSE [r EXCEPT !.successful = successful, !.violatedCount = @ + 1]

AppendErroredPolicy(r, policy) ==
    [r EXCEPT !.errored = Append(@, policy)]

\* variant: an outcome that does not parse is skipped
processOutcome_SkipsUnparsed(r, result) ==
    LET parsed == parseRegoExpressionValue(result)
    IN IF parsed.err # NoErr
       THEN r
       ELSE IF Len(parsed.policy[1].ProcessingErrors) > 0
            THEN AppendErroredPolicy(r, parsed.policy[1])
            ELSE AppendSuccessfulPolicy(r, parsed.policy[1])

\* variant: the parse error is not recorded on the unnamed entry
processOutcome_LosesError(r, result) ==
    LET parsed == parseRegoExpressionValue(result)
    IN IF parsed.err # NoErr
       THEN AppendErroredPolicy(r, Policy)
       ELSE IF Len(parsed.policy[1].ProcessingErrors) > 0
            THEN AppendErroredPolicy(r, parsed.policy[1])
            ELSE AppendSuccessfulPolicy(r, parsed.policy[1])

\* one iteration of the loop of processRegoResult over a raw outcome
processOutcome(r, result) ==
    LET parsed == parseRegoExpressionValue(result)
    IN IF parsed.err # NoErr
       THEN AppendErroredPolicy(r, [Policy EXCEPT !.ProcessingErrors = <<parsed.err>>])
       ELSE IF Len(parsed.policy[1].ProcessingErrors) > 0
            THEN AppendErroredPolicy(r, parsed.policy[1])
            ELSE AppendSuccessfulPolicy(r, parsed.policy[1])

\* variant: a value that is no list reads as the empty list
getExpressionValueList_Lenient(regoResult, index) ==
    IF Len(regoResult.Expressions) <= index
    THEN [val |-> <<>>, err |-> Errorf("no expresion with index in rego result", "", index)]
    ELSE LET regoResultExpressionValue == regoResult.Expressions[index + 1].Value
         IN IF regoResultExpressionValue.t # "list"
            THEN [val |-> <<>>, err |-> NoErr]
            ELSE [val |-> regoResultExpressionValue.v, err |-> NoErr]

getExpressionValueList(regoResult, index) ==
    IF Len(regoResult.Expressions) <= index
    THEN [val |-> <<>>, err |-> Errorf("no expresion with index in rego result", "", index)]
    ELSE LET regoResultExpressionValue == regoResult.Expressions[index + 1].Value
         IN IF regoResultExpressionValue.t # "list"
            THEN [val |-> <<>>,
                  err |-> Errorf("rego expression has value type (expected []interface{})",
                                 regoResultExpressionValue.t, index)]
            ELSE [val |-> regoResultExpressionValue.v, err |-> NoErr]

(* ------------------------------ rule files ---------------------------- *)
\* Content stands for the rego source text; the parser of the rule engine
\* accepts ContentOk and rejects ContentBad ("bla bla")
ContentOk == "package gke.policy.control_plane_access"
ContentBad == "bla bla"
FullNames == {"folder/test_one.rego", "folder/test_two.rego"}
PolicyFile == [FullName : FullNames, Content : {ContentOk, ContentBad}]

\* modules[file.FullName] = file.Content for each file in order
RECURSIVE BuildModules(_, _)
BuildModules(files, modules) ==
    IF files = <<>> THEN modules
    ELSE BuildModules(Tail(files),
                      [n \in DOMAIN modules \cup {Head(files).FullName} |->
                          IF n = Head(files).FullName THEN Head(files).Content
                          ELSE modules[n]])

\* ast.CompileModules: an error as soon as one module does not parse
CompileModules(modules) ==
    IF \E n \in DOMAIN modules : modules[n] = ContentBad
    THEN Errorf("rego_parse_error", CHOOSE n \in DOMAIN modules : modules[n] = ContentBad, -1)
    ELSE NoErr

(* --------------------- outputs of the rule engine --------------------- *)
Field(k, opt) == IF opt = <<>> THEN <<>> ELSE (k :> opt[1])

PolicyNames == {"gke.policy.control_plane_access"}
MetaOk(g) ==
    ("name" :> Str("Control Plane endpoint access"))
    @@ ("description" :> Str("limited to authorized networks"))
    @@ ("group" :> Str(g))
ValidOpts == {<<>>, <<Num(101)>>, <<Bool(TRUE)>>, <<Bool(FALSE)>>}
Messages == <<Str("not enabled"), Str("X has not enabled Y")>>
ViolationOpts ==
    {<<>>, <<NilValue>>, <<List(<<>>)>>, <<List(Messages)>>,
     <<List(<<Str("str1"), Num(100)>>)>>}
Data(g, validOpt, violationOpt) ==
    Map(MetaOk(g) @@ Field("valid", validOpt) @@ Field("violation", violationOpt))

\* data records with complete metadata: every shape of violation under a
\* true verdict, every shape of valid over a list of two messages, and a
\* violated policy of the empty group
DataRecords ==
    {Data("Security", <<Bool(TRUE)>>, w) : w \in ViolationOpts}
    \cup {Data("Security", v, <<List(Messages)>>) : v \in ValidOpts}
    \cup {Data("", <<Bool(FALSE)>>, <<List(<<Str("not enabled")>>)>>)}
\* data that is no record, or lacks or mistypes a metadata field
DataBroken ==
    {Str("data"),
     Map(("description" :> Str("d")) @@ ("group" :> Str("Security"))
         @@ ("valid" :> Bool(TRUE)) @@ ("violation" :> List(<<>>))),
     Map(("name" :> Str("n")) @@ ("description" :> Num(7)) @@ ("group" :> Str("Security"))
         @@ ("valid" :> Bool(TRUE)) @@ ("violation" :> List(<<>>))),
     Map(("name" :> Str("n")) @@ ("description" :> Str("d"))
         @@ ("valid" :> Bool(TRUE)) @@ ("violation" :> List(<<>>))),
     Map(("name" :> Str("n")) @@ ("group" :> Str("Security"))
         @@ ("valid" :> Bool(TRUE)) @@ ("violation" :> List(<<>>))),
     Map(("valid" :> Bool(TRUE)) @@ ("violation" :> List(<<>>)))}
\* the elements the list under data.gke.policies_data may hold
Outcomes ==
    {Map(("name" :> Str(n)) @@ ("data" :> d)) :
        n \in PolicyNames, d \in DataRecords \cup DataBroken}
    \cup {Map("name" :> Str(n)) : n \in PolicyNames}
    \cup {Str("policy_name"),
          Map(("name" :> Num(20)) @@ ("data" :> Map(MetaOk("Security")))),
          Map("bogus" :> Str("value"))}

OutcomeLists == UNION {[1..k -> Outcomes] : k \in 0..MaxOutcomes}

\* what rgo.Eval may hand back: the result set rs and err
EvalReturns ==
    {[rs |-> <<>>, err |-> Errorf("rego_type_error", "", -1)],
     [rs |-> <<>>, err |-> NoErr],
     [rs |-> <<[Expressions |-> <<>>]>>, err |-> NoErr],
     [rs |-> <<[Expressions |-> <<[Value |-> Str("test")]>>]>>, err |-> NoErr],
     [rs |-> <<[Expressions |-> <<[Value |-> NilValue]>>]>>, err |-> NoErr]}
    \cup {[rs |-> <<[Expressions |-> <<[Value |-> List(l)]>>]>>, err |-> NoErr] :
            l \in OutcomeLists}

(* ------------------------------- state -------------------------------- *)
VARIABLES
    files,      \* PolicyAgent.files
    pc,         \* position of the EvaluatePolicies call
    modules,    \* the map handed to ast.CompileModules
    rs,         \* rego.ResultSet returned by rgo.Eval
    values,     \* the list processRegoResult loops over
    i,          \* number of elements of values the loop has consumed
    results,    \* *PolicyEvaluationResult being built
    ret         \* what EvaluatePolicies returned: [result, err]

vars == <<files, pc, modules, rs, values, i, results, ret>>

NoReturn == [result |-> <<>>, err |-> NoErr]

\* NewPolicyAgent(ctx, files)
NewPolicyAgent(fs) ==
    /\ files = fs
    /\ pc = "start"
    /\ modules = <<>>
    /\ rs = <<>>
    /\ values = <<>>
    /\ i = 0
    /\ results = PolicyEvaluationResult
    /\ ret = NoReturn

Init == \E fs \in UNION {[1..k -> PolicyFile] : k \in 0..MaxFiles} : NewPolicyAgent(fs)

\* EvaluatePolicies, lines 42-49: build the module map and compile it
Compile ==
    /\ pc = "start"
    /\ modules' = BuildModules(files, <<>>)
    /\ LET err == CompileModules(modules')
       IN IF err # NoErr
          THEN /\ ret' = [result |-> <<>>, err |-> err]
               /\ pc' = "done"
          ELSE /\ ret' = ret
               /\ pc' = "compiled"
    /\ UNCHANGED <<files, rs, values, i, results>>

\* EvaluatePolicies, lines 50-61: query the rule engine
Eval ==
    /\ pc = "compiled"
    /\ \E out \in EvalReturns :
          IF out.err # NoErr
          THEN /\ ret' = [result |-> <<>>, err |-> Wrap("failed to evaluate rego", out.err)]
               /\ pc' = "done"
               /\ rs' = rs
          ELSE IF Len(out.rs) < 1
               THEN /\ ret' = [result |-> <<>>,
                               err |-> Errorf("rego evaluation returned empty result set", "", -1)]
                    /\ pc' = "done"
                    /\ rs' = out.rs
               ELSE /\ ret' = ret
                    /\ pc' = "process"
                    /\ rs' = out.rs
    /\ UNCHANGED <<files, modules, values, i, results>>

\* processRegoResult(&rs[0]), lines 113-117
ProcessBegin ==
    /\ pc = "process"
    /\ LET r == getExpressionValueList(rs[1], 0)
       IN IF r.err # NoErr
          THEN /\ ret' = [result |-> <<>>,
                          err |-> Wrap("failed to get expression value from rego result", r.err)]
               /\ pc' = "done"
               /\ UNCHANGED <<values, i, results>>
          ELSE /\ values' = r.val
               /\ i' = 0
               /\ results' = PolicyEvaluationResult
               /\ pc' = "loop"
               /\ ret' = ret
    /\ UNCHANGED <<files, modules, rs>>

\* processRegoResult, lines 118-129: one iteration of the range loop
ProcessNext ==
    /\ pc = "loop"
    /\ i < Len(values)
    /\ results' = processOutcome(results, values[i + 1])
    /\ i' = i + 1
    /\ UNCHANGED <<files, pc, modules, rs, values, ret>>

\* processRegoResult, line 130
ProcessReturn ==
    /\ pc = "loop"
    /\ i = Len(values)
    /\ ret' = [result |-> <<results>>, err |-> NoErr]
    /\ pc' = "done"
    /\ UNCHANGED <<files, modules, rs, values, i, results>>

Next == Compile \/ Eval \/ ProcessBegin \/ ProcessNext \/ ProcessReturn

Spec == Init /\ [][Next]_vars

(* ===================== shapes of a raw outcome ========================= *)
\* Stated on the raw value, independently of the parsing operators above.
HasString(m, k) == k \in DOMAIN m /\ m[k].t = "string"
HasBool(m, k) == k \in DOMAIN m /\ m[k].t = "bool"
HasStringList(m, k) ==
    /\ k \in DOMAIN m
    /\ m[k].t = "list"
    /\ \A n \in 1..Len(m[k].v) : m[k].v[n].t = "string"
\* the outcome is a record that carries a string name
Identifiable(v) == v.t = "map" /\ HasString(v.v, "name")
HasDataRecord(v) == Identifiable(v) /\ "data" \in DOMAIN v.v /\ v.v["data"].t = "map"
MetadataComplete(v) ==
    /\ HasDataRecord(v)
    /\ HasString(v.v["data"].v, "name")
    /\ HasString(v.v["data"].v, "description")
    /\ HasString(v.v["data"].v, "group")
WellFormed(v) ==
    /\ MetadataComplete(v)
    /\ HasBool(v.v["data"].v, "valid")
    /\ HasStringList(v.v["data"].v, "violation")
DataOf(v) == v.v["data"].v

\* a step of the loop consumes values[i + 1]
Consumes == i' = i + 1
Current == values[i + 1]

RECURSIVE Sum(_)
Sum(f) ==
    IF DOMAIN f = {} THEN 0
    ELSE LET x == CHOOSE y \in DOMAIN f : TRUE
         IN f[x] + Sum([y \in DOMAIN f \ {x} |-> f[y]])
CountVerdict(r, verdict) ==
    Sum([g \in DOMAIN r.successful |->
            Cardinality({k \in 1..Len(r.successful[g]) : r.successful[g][k].Valid = verdict})])
\* the three partitions of a result, by size
ValidEntries(r) == CountVerdict(r, TRUE)
ViolatedEntries(r) == CountVerdict(r, FALSE)
ErroredEntries(r) == Len(r.errored)
\* the entry a step has just appended to a list
Last(seq) == seq[Len(seq)]
CountersUnchanged ==
    /\ ValidCount(results') = ValidCount(results)
    /\ ViolatedCount(results') = ViolatedCount(results)
GroupListsUnchanged == results'.successful = results.successful

(* ============================== claims ================================= *)

\* C1: after any number of processed outcomes, each outcome has produced
\* exactly one entry (the partitions together hold as many entries as
\* outcomes were consumed, and each step adds one entry to one partition and
\* none to the other two); an entry of Errored carries processing errors and
\* an entry of Valid or Violated carries none, so no entry is in two
\* partitions.
C1_Partition ==
    /\ [](/\ ValidEntries(results) + ViolatedEntries(results) + ErroredEntries(results) = i
          /\ \A k \in 1..Len(results.errored) : results.errored[k].ProcessingErrors # <<>>
          /\ \A g \in DOMAIN results.successful : \A k \in 1..Len(results.successful[g]) :
                 results.successful[g][k].ProcessingErrors = <<>>
          /\ (pc = "done" /\ ret.result # <<>> => i = Len(values)))
    /\ [][Consumes =>
            LET dValid == ValidEntries(results') - ValidEntries(results)
                dViolated == ViolatedEntries(results') - ViolatedEntries(results)
                dErrored == ErroredEntries(results') - ErroredEntries(results)
            IN <<dValid, dViolated, dErrored>> \in {<<1, 0, 0>>, <<0, 1, 0>>, <<0, 0, 1>>}]_vars

C1_Witness ==
    /\ pc = "done" /\ ret.result # <<>> /\ i = 2
    /\ ValidEntries(results) = 1
    /\ ErroredEntries(results) = 1

\* C2: a policy with verdict true is appended to Valid[group] and one with
\* verdict false to Violated[group], Valid and Violated being separate
\* per-group lists: the list of a group that receives a valid policy holds
\* no violated policy, and entries with processing errors are in Errored only.
C2_SeparateLists ==
    /\ \A k \in 1..Len(results.errored) : results.errored[k].ProcessingErrors # <<>>
    /\ \A g \in DOMAIN results.successful :
          \A k, l \in 1..Len(Policies(results, g)) :
              Policies(results, g)[k].Valid = Policies(results, g)[l].Valid

\* C3: an outcome that is no record, or has no string name, adds exactly one
\* entry to Errored, with an empty name and one processing error; it changes
\* nothing else, the loop goes on, and a returned result has consumed every
\* outcome.
C3_FailClosed ==
    /\ [](pc = "done" /\ ret.result # <<>> =>
            /\ i = Len(values)
            /\ Cardinality({k \in 1..Len(values) : ~Identifiable(values[k])})
                 = Cardinality({k \in 1..Len(results.errored) : results.errored[k].Name = ""}))
    /\ [][Consumes /\ ~Identifiable(Current) =>
            /\ Len(results'.errored) = Len(results.errored) + 1
            /\ SubSeq(results'.errored, 1, Len(results.errored)) = results.errored
            /\ Last(results'.errored).Name = ""
            /\ Len(Last(results'.errored).ProcessingErrors) = 1
            /\ GroupListsUnchanged /\ CountersUnchanged
            /\ pc' = "loop" /\ values' = values /\ ret' = ret]_vars

C3_Witness ==
    /\ pc = "done" /\ ret.result # <<>>
    /\ Len(values) = 2
    /\ ~Identifiable(values[1])
    /\ WellFormed(values[2])
    /\ ErroredEntries(results) = 1
    /\ ValidEntries(results) + ViolatedEntries(results) = 1

\* the module map holds parseable sources only and has been compiled
CompiledOk == pc # "start" /\ \A n \in DOMAIN modules : modules[n] = ContentOk
\* the first result of the engine carries a list as its first expression value
HasValueList ==
    /\ Len(rs) >= 1
    /\ Len(rs[1].Expressions) >= 1
    /\ rs[1].Expressions[1].Value.t = "list"
Anomalies == {k \in 1..Len(values) : ~WellFormed(values[k])}

C5_Case(v) ==
    /\ HasDataRecord(v)
    /\ \/ ~HasBool(DataOf(v), "valid")
       \/ /\ "violation" \in DOMAIN DataOf(v)
          /\ DataOf(v)["violation"].t = "list"
          /\ ~HasStringList(DataOf(v), "violation")

C5_ShapeError ==
    [][Consumes /\ C5_Case(Current) =>
          /\ Len(results'.errored) = Len(results.errored) + 1
          /\ SubSeq(results'.errored, 1, Len(results.errored)) = results.errored
          /\ Last(results'.errored).Name = Current.v["name"].v
          /\ Len(Last(results'.errored).ProcessingErrors) = 1
          /\ GroupListsUnchanged /\ CountersUnchanged]_vars

C5_Witness ==
    /\ pc = "loop" /\ i = 2
    /\ WellFormed(values[1])
    /\ C5_Case(values[2])
    /\ MetadataComplete(values[2])
    /\ ValidCount(results) + ViolatedCount(results) = 1
    /\ ErroredCount(results) = 1

\* C6: a well-formed outcome (string name, complete data record, boolean
\* valid, violation a list of strings) adds exactly one entry, at the end of
\* the list of its group; the entry carries the outcome's verdict and the
\* outcome's violation strings, same length, same order; nothing is added to
\* Errored or to another group, and only the count of its verdict grows.
C6_WellFormed ==
    [][Consumes /\ WellFormed(Current) =>
          LET d == DataOf(Current)
              g == d["group"].v
              e == Last(results'.successful[g])
          IN /\ g \in DOMAIN results'.successful
             /\ results'.successful[g] = Append(Policies(results, g), e)
             /\ \A h \in DOMAIN results'.successful \ {g} :
                    h \in DOMAIN results.successful
                    /\ results'.successful[h] = results.successful[h]
             /\ e.Name = Current.v["name"].v
             /\ e.Group = g
             /\ e.Valid = d["valid"].v
             /\ Len(e.Violations) = Len(d["violation"].v)
             /\ \A n \in 1..Len(e.Violations) : e.Violations[n] = d["violation"].v[n].v
             /\ e.ProcessingErrors = <<>>
             /\ results'.errored = results.errored
             /\ ValidEntries(results') =
                    ValidEntries(results) + (IF d["valid"].v THEN 1 ELSE 0)
             /\ ViolatedEntries(results') =
                    ViolatedEntries(results) + (IF d["valid"].v THEN 0 ELSE 1)]_vars

C6_Witness ==
    /\ pc = "loop" /\ i = 1
    /\ WellFormed(values[1])
    /\ ~DataOf(values[1])["valid"].v
    /\ Len(DataOf(values[1])["violation"].v) = 2
    /\ "Security" \in DOMAIN results.successful
    /\ results.successful["Security"][1].Violations
         = <<"not enabled", "X has not enabled Y">>

\* C7: ValidCount is the number of entries with verdict true in the
\* per-group lists, ViolatedCount the number with verdict false, and
\* ErroredCount the number of outcomes that were routed to Errored.
C7_Counts ==
    /\ ValidCount(results) = ValidEntries(results)
    /\ ViolatedCount(results) = ViolatedEntries(results)
    /\ ErroredCount(results) = Len(results.errored)
    /\ ErroredCount(results) = Cardinality({k \in 1..i : ~WellFormed(values[k])})

C7_Witness ==
    /\ i = 2
    /\ ValidCount(results) = 1
    /\ ViolatedCount(results) = 1
    /\ Cardinality(DOMAIN results.successful) = 1

\* C8: any slice Groups() may return holds each group of a processed
\* well-formed outcome exactly once and no other key; the empty group is a
\* key, and the Group of an entry of Errored is not.
GroupsSeen == {DataOf(values[k])["group"].v : k \in {n \in 1..i : WellFormed(values[n])}}
Range(s) == {s[n] : n \in DOMAIN s}

C8_Groups ==
    \A s \in Groups(results) :
        /\ Range(s) = GroupsSeen
        /\ Len(s) = Cardinality(GroupsSeen)
        /\ \A g \in GroupsSeen : Len(Policies(results, g)) >= 1

C8_Witness ==
    /\ i = 2
    /\ \E k \in 1..Len(results.errored) : results.errored[k].Group = "Security"
    /\ Groups(results) = {<<"">>}

\* C9 (as claimed): an outcome with a boolean valid field and no violation
\* field gets no processing error and is classified by its verdict with an
\* empty violation list.
C9_Case(v) ==
    /\ MetadataComplete(v)
    /\ HasBool(DataOf(v), "valid")
    /\ "violation" \notin DOMAIN DataOf(v)

C9_ViolationOptional ==
    [][Consumes /\ C9_Case(Current) =>
          LET g == DataOf(Current)["group"].v
          IN /\ results'.errored = results.errored
             /\ g \in DOMAIN results'.successful
             /\ Len(results'.successful[g]) = Len(Policies(results, g)) + 1
             /\ Last(results'.successful[g]).Valid = DataOf(Current)["valid"].v
             /\ Last(results'.successful[g]).Violations = <<>>]_vars

\* C9 (amended): the violation field is required. An outcome with a boolean
\* valid field and no violation field adds one entry to Errored whose only
\* processing error names the missing violation key; the entry keeps the
\* verdict that was read, and the per-group lists and counts do not change.
\* A violation field that is present and is no list of strings is an error
\* as well.
C9_ViolationRequired ==
    [][Consumes /\ MetadataComplete(Current) /\ HasBool(DataOf(Current), "valid")
                /\ ~HasStringList(DataOf(Current), "violation") =>
          /\ Len(results'.errored) = Len(results.errored) + 1
          /\ SubSeq(results'.errored, 1, Len(results.errored)) = results.errored
          /\ Last(results'.errored).Valid = DataOf(Current)["valid"].v
          /\ Last(results'.errored).Violations = <<>>
          /\ Len(Last(results'.errored).ProcessingErrors) = 1
          /\ Last(results'.errored).ProcessingErrors[1].key = "violation"
          /\ (C9_Case(Current) =>
                Last(results'.errored).ProcessingErrors[1].msg = "map does not contain key")
          /\ GroupListsUnchanged /\ CountersUnchanged]_vars

C9_Witness ==
    /\ pc = "loop" /\ i = 1
    /\ C9_Case(values[1])
    /\ DataOf(values[1])["valid"].v
    /\ Len(results.errored) = 1
    /\ results.errored[1].Valid
    /\ results.successful = <<>>

\* C10: a batch of rule files with at least one syntactically invalid file
\* is never evaluated and the call returns a non-nil error and no result.
C10_AllOrNothing ==
    (\E k \in 1..Len(files) : files[k].Content = ContentBad) =>
        /\ pc \in {"start", "done"}
        /\ pc = "done" => ret.err # NoErr /\ ret.result = <<>>

\* the metadata fields of a data record, in the order the code reads them
MetadataFields == <<"name", "description", "group">>
MissingFields(d) == {n \in 1..3 : ~HasString(d, MetadataFields[n])}
FirstMissing(d) == MetadataFields[CHOOSE n \in MissingFields(d) :
                                    \A o \in MissingFields(d) : n <= o]

\* C11: an outcome whose data lacks one of the metadata fields name,
\* description, group never enters a per-group list and changes neither
\* ValidCount nor ViolatedCount, whatever verdict it carries; it is reported
\* as one entry of Errored under its name, with a processing error naming the
\* first missing field, and that entry is in the result the caller gets.
C11_IncompleteMetadata ==
    /\ [](\A g \in DOMAIN results.successful : \A k \in 1..Len(results.successful[g]) :
             \E n \in 1..i :
                 /\ MetadataComplete(values[n])
                 /\ results.successful[g][k].Name = values[n].v["name"].v
                 /\ results.successful[g][k].FullName = DataOf(values[n])["name"].v
                 /\ results.successful[g][k].Description = DataOf(values[n])["description"].v
                 /\ results.successful[g][k].Group = DataOf(values[n])["group"].v)
    /\ [](pc = "done" /\ ret.result # <<>> =>
             \A n \in 1..Len(values) :
                 HasDataRecord(values[n]) /\ ~MetadataComplete(values[n]) =>
                     \E k \in 1..Len(ret.result[1].errored) :
                         /\ ret.result[1].errored[k].Name = values[n].v["name"].v
                         /\ ret.result[1].errored[k].ProcessingErrors[1].key
                              = FirstMissing(DataOf(values[n])))
    /\ [][Consumes /\ HasDataRecord(Current) /\ ~MetadataComplete(Current) =>
             /\ Len(results'.errored) = Len(results.errored) + 1
             /\ SubSeq(results'.errored, 1, Len(results.errored)) = results.errored
             /\ Last(results'.errored).Name = Current.v["name"].v
             /\ Len(Last(results'.errored).ProcessingErrors) = 1
             /\ Last(results'.errored).ProcessingErrors[1].key = FirstMissing(DataOf(Current))
             /\ GroupListsUnchanged /\ CountersUnchanged]_vars

C11_Witness ==
    /\ pc = "done" /\ ret.result # <<>>
    /\ Len(values) = 2
    /\ WellFormed(values[1])
    /\ HasDataRecord(values[2])
    /\ MissingFields(DataOf(values[2])) = {3}
    /\ HasBool(DataOf(values[2]), "valid") /\ DataOf(values[2])["valid"].v
    /\ ValidCount(ret.result[1]) + ViolatedCount(ret.result[1]) = 1
    /\ Len(ret.result[1].errored) = 1
    /\ ret.result[1].errored[1].ProcessingErrors[1].key = "group"

\* the metadata fields of a data record that are missing or empty
MissingOrEmpty(d) ==
    {n \in 1..3 : ~HasString(d, MetadataFields[n]) \/ d[MetadataFields[n]].v = ""}
\* the diagnostics recorded on the entry a step adds
AddedDiagnostics ==
    IF Len(results'.errored) > Len(results.errored)
    THEN Len(Last(results'.errored).ProcessingErrors)
    ELSE 0

\* C12: the number of metadata diagnostics recorded for a policy equals the
\* number of the fields name (title), description, group of its data record
\* that are missing or empty: 0 when all three are present, 3 when all three
\* are missing.
C12_OneDiagnosticPerField ==
    [][Consumes /\ HasDataRecord(Current)
                /\ HasBool(DataOf(Current), "valid")
                /\ HasStringList(DataOf(Current), "violation") =>
          AddedDiagnostics = Cardinality(MissingOrEmpty(DataOf(Current)))]_vars

\* the entries of a result, over the per-group lists and Errored, named n
EntriesNamed(r, n) ==
    Sum([g \in DOMAIN r.successful |->
            Cardinality({k \in 1..Len(r.successful[g]) : r.successful[g][k].Name = n})])
    + Cardinality({k \in 1..Len(r.errored) : r.errored[k].Name = n})

\* C13: identity is unique across a run: a batch in which two rule files
\* share an identity is not accepted by compilation with one file
\* overwriting the other, and no two entries of a result (Valid, Violated
\* and named Errored entries together) carry the same name.
C13_UniqueIdentity ==
    /\ CompiledOk =>
          \A k, l \in 1..Len(files) : files[k].FullName = files[l].FullName => k = l
    /\ \A n \in PolicyNames : EntriesNamed(results, n) <= 1

====
